---- MODULE Spec2Model ----
(***************************************************************************)
(* The contour editor of src/components/ImageEditor.tsx as a state machine. *)
(*                                                                         *)
(* Numbers.  Container pixels are integers.  A normalized coordinate is an *)
(* integer count of 1/Den, so 0..Den stands for [0,1]; a screen coordinate *)
(* is held in 1/Den pixel ("sub-pixel") so that offset + n * size is exact.*)
(* JavaScript's division by zero is kept: PosInf, NegInf and NaN.          *)
(*                                                                         *)
(* React.  A handler reads the values captured by the last render and      *)
(* queues its updates.  The updates of pointerdown, pointerup, click, load *)
(* and resize are rendered before the next event is handled; the updates   *)
(* of a pointermove are rendered by a scheduled task (Render) that may run *)
(* after the next event.  points is the queued (live) contour and rPoints  *)
(* the contour captured by the last render; points is the only state a     *)
(* pointermove changes that a handler reads back.                          *)
(*                                                                         *)
(* inStroke is a history variable: TRUE exactly while the events since the *)
(* last Freehand pointer-down, that one included, are pointer-moves only.  *)
(*                                                                         *)
(* App.  mode, imageSrc and cutoutData are the state of src/App.tsx, which *)
(* mounts the editor while mode = DRAW and an image source is present;     *)
(* cutoutData is << >> for null and <<data>> otherwise; alertMessage is    *)
(* the text of the last window.alert; settings holds the eight 3D settings *)
(* by name.                                                                *)
(*                                                                         *)
(* Viewer.  viewer is the state of src/components/ThreeViewer.tsx, mounted *)
(* while mode = VIEW_3D with cutout data: its React state, the pending     *)
(* 150 ms timer, the renderer state a capture touches and the number of    *)
(* snapshot downloads.  An event of the viewer is handled together with    *)
(* the renders and effect runs it causes, up to the render that queues no  *)
(* further update.                                                         *)
(***************************************************************************)
EXTENDS Integers, Sequences, FiniteSets, TLC

VARIABLES points, rPoints, history, historyStep, tool, cursorPos,
          draggingPointIndex, isDrawing, dimensions, imageElement,
          container, magnifierState, crashed, inStroke,
          mode, imageSrc, cutoutData, alertMessage, settings, viewer

vars == <<points, rPoints, history, historyStep, tool, cursorPos,
          draggingPointIndex, isDrawing, dimensions, imageElement,
          container, magnifierState, crashed, inStroke,
          mode, imageSrc, cutoutData, alertMessage, settings, viewer>>

\* the state of App.tsx, the last alert shown and the 3D viewer
appVars == <<mode, imageSrc, cutoutData, alertMessage, settings, viewer>>

----------------------------------------------------------------------------
(* Bounds of the model *)

MaxPoints == 2

MaxHistory == 2

ImageSize == <<80, 40>>

ContainerSizes == {<<80, 40>>, <<40, 20>>}

InitialContainer == <<80, 40>>

Pointers == {<<-5, -5>>, <<90, 50>>}

\* pointer positions for the geometry of decimation: (13,11) is at squared
\* distance 10 from (10,10), (13,12) at 13; (-5,50) is off the image and
\* (0,10) divides 0 by 0 while no image is fitted
GeoPointers == {<<10, 10>>, <<13, 11>>, <<13, 12>>, <<-5, 50>>, <<0, 10>>}

\* a pointer grid and contour points for the geometry of the hit test, for
\* an 80x40 image shown at full size: seen from the pointer (40,0), the
\* points (40,60) and (22,48) are on screen at distance exactly 30,
\* (60,30) and (25,40) both at distance 25, and (40,20) at distance 10
HitPointers == {<<40, 0>>, <<25, 25>>, <<10, 5>>}

HitPoints == {<<40, 60>>, <<22, 48>>, <<60, 30>>, <<25, 40>>, <<40, 20>>}

Den == ImageSize[1]

----------------------------------------------------------------------------
(* Values *)

ToolType == {"freehand", "polygon", "move"}

Null == << >>

Hole == <<0>>

NullIndex == 0 - 1

PosInf == Den * Den * Den

NegInf == 0 - PosInf

NaN == NegInf - 1

HitRadius == 30

DecimationThreshold == 10

IsPoint(p) == Len(p) = 2

AppMode == {"UPLOAD", "DRAW", "VIEW_3D"}

\* the data URL of the uploaded image, and imageSrc === null
UploadedImage == "image-1"

NoImageSrc == "null"

\* the images a user may upload
ImageSources == {UploadedImage, "image-2"}

\* no alert shown yet
NoAlert == ""

\* undefined, where null is << >> and a value v is <<v>>
Undefined == <<Null, Null>>

\* undefined, where a string is held
UndefinedStr == "undefined"

\* the 3D settings of App; a setting holds its default, a value the user
\* chose, a value read from a project file, or undefined
SettingNames ==
  {"thickness", "extrusionColor", "bevelEnabled", "bevelSize", "isIso",
   "fov", "lightIntensity", "lightColor"}

DefaultSettings == [n \in SettingNames |-> "default"]

\* pendingScale === null and exportError === null
NoScale == 0

NoExportError == "null"

\* the viewer as ThreeViewer mounts it; captureThrows tells whether the
\* backend throws while a snapshot is rendered; glbParsing counts the
\* exporter.parse calls whose callback is still to come, glbDownloads and
\* glbAlerts the calls of onGLBExportComplete and onGLBExportError
FreshViewer(throws) ==
  [captureTrigger |-> 0, captureScale |-> 1, showExportDialog |-> FALSE,
   isProcessing |-> FALSE, exportError |-> NoExportError,
   pendingScale |-> NoScale, timer |-> FALSE, downloads |-> 0,
   pixelRatio |-> 1, background |-> "original", shadowsVisible |-> TRUE,
   captureThrows |-> throws,
   glbExportTrigger |-> 0, isExportingGLB |-> FALSE, glbParsing |-> 0,
   glbDownloads |-> 0, glbAlerts |-> 0]

\* the least number of points handleFinish accepts
MinFinishPoints == 3

\* App renders ImageEditor for mode DRAW with an image source; a throwing
\* draw effect takes the component tree down
Mounted ==
  mode = "DRAW" /\ imageSrc \notin {NoImageSrc, UndefinedStr} /\ ~crashed

\* App after an upload, before any Finish
AppDrawing ==
  /\ mode = "DRAW"
  /\ imageSrc = UploadedImage
  /\ cutoutData = Null
  /\ alertMessage = NoAlert
  /\ settings = DefaultSettings
  /\ viewer = FreshViewer(FALSE)

InitialDimensions ==
  [width |-> 0, height |-> 0, scale |-> <<1, 1>>, offsetX |-> 0, offsetY |-> 0]

----------------------------------------------------------------------------
(* CoordinateMapper *)

\* fitImage's "contain" computation for a container <<cw, ch>> and an image
\* <<iw, ih>>; scale is the fraction <<numerator, denominator>>.
Fit(c, img) ==
  LET cw == c[1]
      ch == c[2]
      iw == img[1]
      ih == img[2]
      byWidth == cw * ih <= ch * iw
      renderWidth == IF byWidth THEN cw ELSE (iw * ch) \div ih
      renderHeight == IF byWidth THEN (ih * cw) \div iw ELSE ch
  IN [width |-> renderWidth, height |-> renderHeight,
      scale |-> IF byWidth THEN <<cw, iw>> ELSE <<ch, ih>>,
      offsetX |-> (cw - renderWidth) \div 2,
      offsetY |-> (ch - renderHeight) \div 2]

Mul(a, b) == IF a = NaN \/ b = NaN THEN NaN ELSE a * b

Add(a, b) == IF a = NaN \/ b = NaN THEN NaN ELSE a + b

Sub(a, b) == IF a = NaN \/ b = NaN THEN NaN ELSE a - b

\* a / b in JavaScript, a and b finite, the quotient in the unit of a
Div(a, b) ==
  IF b # 0 THEN a \div b
  ELSE IF a > 0 THEN PosInf ELSE IF a < 0 THEN NegInf ELSE NaN

\* toScreen: normalized point -> sub-pixel position
toScreen(pt, d) ==
  <<Add(d.offsetX * Den, Mul(pt[1], d.width)),
    Add(d.offsetY * Den, Mul(pt[2], d.height))>>

\* toNormalized of a sub-pixel position
toNormalizedS(sx, sy, d) ==
  <<Div(sx - d.offsetX * Den, d.width), Div(sy - d.offsetY * Den, d.height)>>

\* toNormalized of a container pixel position
toNormalized(x, y, d) == toNormalizedS(x * Den, y * Den, d)

\* Math.max(0, Math.min(1, v))
Clamp01(v) ==
  IF v = NaN THEN NaN ELSE IF v < 0 THEN 0 ELSE IF v > Den THEN Den ELSE v

\* "clamped" of handlePointerDown / handlePointerMove for the pointer p
Clamped(p, d) ==
  LET pt == toNormalized(p[1], p[2], d)
  IN <<Clamp01(pt[1]), Clamp01(pt[2])>>

----------------------------------------------------------------------------
(* JavaScript arrays *)

\* [...arr]: a dense copy, holes read as undefined
Spread(arr) == [i \in 1..Len(arr) |-> IF arr[i] = Hole THEN Null ELSE arr[i]]

\* arr[index] = v on a copy of arr (index counted from 0); an index past the
\* end leaves holes in between
AssignAt(arr, index, v) ==
  LET n == IF index + 1 > Len(arr) THEN index + 1 ELSE Len(arr)
  IN [i \in 1..n |-> IF i = index + 1 THEN v
                     ELSE IF i <= Len(arr) THEN arr[i] ELSE Hole]

\* the draw effect dereferences every element of points once an image is
\* fitted; an element that is no point makes it throw
DrawThrows(pts, d, img) ==
  /\ img # Null
  /\ d.width # 0
  /\ \E i \in 1..Len(pts) : ~IsPoint(pts[i])

----------------------------------------------------------------------------
(* HistoryStack *)

\* mutant: the entries beyond the cursor are kept
NewHistoryNoSlice(h, step, newPoints) == Append(h, newPoints)

\* mutant: the slice starts at index 1, history.slice(1, historyStep + 1)
NewHistoryDropsFirst(h, step, newPoints) ==
  Append(SubSeq(h, 2, step + 1), newPoints)

\* history.slice(0, historyStep + 1) followed by newPoints
NewHistory(h, step, newPoints) == Append(SubSeq(h, 1, step + 1), newPoints)

\* mutant: the cursor is left where it was
saveHistoryKeepsStep(newPoints) ==
  /\ history' = NewHistory(history, historyStep, newPoints)
  /\ historyStep' = historyStep

\* mutant: the cursor is set to the new length
saveHistoryStepPastEnd(newPoints) ==
  /\ history' = NewHistory(history, historyStep, newPoints)
  /\ historyStep' = Len(history')

saveHistory(newPoints) ==
  /\ history' = NewHistory(history, historyStep, newPoints)
  /\ historyStep' = Len(history') - 1

----------------------------------------------------------------------------
(* HitTester *)

\* squared sub-pixel distance between the screen position of pt and the
\* pointer p; NaN when the position is NaN
Dist2(pt, p, d) ==
  LET s == toScreen(pt, d)
      dx == Sub(s[1], p[1] * Den)
      dy == Sub(s[2], p[2] * Den)
  IN Add(Mul(dx, dx), Mul(dy, dy))

\* the forEach of handlePointerDown from element i on, with the running
\* <<foundIndex, minDist squared>>; forEach skips holes
RECURSIVE HitScan(_, _, _, _, _)
HitScan(pts, p, d, i, acc) ==
  IF i > Len(pts) THEN acc
  ELSE IF pts[i] = Hole THEN HitScan(pts, p, d, i + 1, acc)
  ELSE LET d2 == Dist2(pts[i], p, d)
       IN IF d2 # NaN /\ d2 < acc[2]
          THEN HitScan(pts, p, d, i + 1, <<i - 1, d2>>)
          ELSE HitScan(pts, p, d, i + 1, acc)

\* mutant: the comparison of the scan is "dist <= minDist"
RECURSIVE HitScanInclusive(_, _, _, _, _)
HitScanInclusive(pts, p, d, i, acc) ==
  IF i > Len(pts) THEN acc
  ELSE IF pts[i] = Hole THEN HitScanInclusive(pts, p, d, i + 1, acc)
  ELSE LET d2 == Dist2(pts[i], p, d)
       IN IF d2 # NaN /\ d2 <= acc[2]
          THEN HitScanInclusive(pts, p, d, i + 1, <<i - 1, d2>>)
          ELSE HitScanInclusive(pts, p, d, i + 1, acc)

HitTestInclusive(pts, p, d) ==
  HitScanInclusive(pts, p, d, 1,
                   <<NullIndex, (HitRadius * Den) * (HitRadius * Den)>>)[1]

\* foundIndex of handlePointerDown (NullIndex is the code's -1)
HitTest(pts, p, d) ==
  HitScan(pts, p, d, 1, <<NullIndex, (HitRadius * Den) * (HitRadius * Den)>>)[1]

\* toScreen(p) on an undefined element throws inside the forEach
HitTestThrows(pts) == \E i \in 1..Len(pts) : pts[i] = Null

----------------------------------------------------------------------------
(* Freehand decimation: the functional update of handlePointerMove *)

\* mutant: a point exactly at the threshold passes the filter
FarEnoughOrEqual(last, clamped, d) ==
  LET dx == Mul(Sub(clamped[1], last[1]), d.width)
      dy == Mul(Sub(clamped[2], last[2]), d.height)
      sum == Add(Mul(dx, dx), Mul(dy, dy))
  IN sum # NaN /\ sum >= DecimationThreshold * Den * Den

FarEnough(last, clamped, d) ==
  LET dx == Mul(Sub(clamped[1], last[1]), d.width)
      dy == Mul(Sub(clamped[2], last[2]), d.height)
      sum == Add(Mul(dx, dx), Mul(dy, dy))
  IN sum # NaN /\ sum > DecimationThreshold * Den * Den

Decimate(prev, clamped, d) ==
  IF Len(prev) = 0 THEN <<clamped>>
  ELSE IF FarEnough(prev[Len(prev)], clamped, d) THEN Append(prev, clamped)
  ELSE prev

----------------------------------------------------------------------------
(* Initial state: the useState initial values *)

Init ==
  /\ points = << >>
  /\ rPoints = << >>
  /\ history = << << >> >>
  /\ historyStep = 0
  /\ tool = "freehand"
  /\ cursorPos = Null
  /\ draggingPointIndex = NullIndex
  /\ isDrawing = FALSE
  /\ dimensions = InitialDimensions
  /\ imageElement = Null
  /\ container = InitialContainer
  /\ magnifierState = Null
  /\ crashed = FALSE
  /\ inStroke = FALSE
  /\ AppDrawing

\* the render that follows an event before the next one is handled
Flush ==
  /\ rPoints' = points'
  /\ crashed' = DrawThrows(points', dimensions', imageElement')

----------------------------------------------------------------------------
(* Pointer handlers *)

\* tool === 'move': the hit test, then the drag index
downMove(p) ==
  LET foundIndex == HitTest(rPoints, p, dimensions)
  IN IF ~HitTestThrows(rPoints) /\ foundIndex # NullIndex
     THEN /\ draggingPointIndex' = foundIndex
          /\ magnifierState' = p
          /\ UNCHANGED <<points, history, historyStep, isDrawing>>
     ELSE UNCHANGED <<points, history, historyStep, isDrawing,
                      draggingPointIndex, magnifierState>>

\* mutant: the stroke is not marked active
downFreehandNoStroke(p) ==
  /\ Len(points) < MaxPoints
  /\ points' = Append(points, Clamped(p, dimensions))
  /\ magnifierState' = p
  /\ UNCHANGED <<isDrawing, history, historyStep, draggingPointIndex>>

\* tool === 'freehand': setPoints(prev => [...prev, clamped])
downFreehand(p) ==
  /\ Len(points) < MaxPoints
  /\ isDrawing' = TRUE
  /\ points' = Append(points, Clamped(p, dimensions))
  /\ magnifierState' = p
  /\ UNCHANGED <<history, historyStep, draggingPointIndex>>

\* mutant: the vertex is added but not committed
downPolygonNoCommit(p) ==
  /\ Len(rPoints) < MaxPoints
  /\ historyStep + 2 <= MaxHistory
  /\ points' = Append(Spread(rPoints), Clamped(p, dimensions))
  /\ magnifierState' = p
  /\ UNCHANGED <<history, historyStep, isDrawing, draggingPointIndex>>

\* tool === 'polygon': newPoints = [...points, clamped], set and committed
downPolygon(p) ==
  LET newPoints == Append(Spread(rPoints), Clamped(p, dimensions))
  IN /\ Len(rPoints) < MaxPoints
     /\ historyStep + 2 <= MaxHistory
     /\ points' = newPoints
     /\ saveHistory(newPoints)
     /\ magnifierState' = p
     /\ UNCHANGED <<isDrawing, draggingPointIndex>>

handlePointerDown(p) ==
  IF tool = "move" THEN downMove(p)
  ELSE IF tool = "freehand" THEN downFreehand(p)
  ELSE downPolygon(p)

\* tool === 'move': the dragged point is replaced in a copy of points
moveDrag(p) ==
  IF draggingPointIndex # NullIndex
  THEN /\ points' = AssignAt(Spread(rPoints), draggingPointIndex,
                             Clamped(p, dimensions))
       /\ magnifierState' = p
  ELSE UNCHANGED <<points, magnifierState>>

\* tool === 'freehand': the distance filter, as a functional update
moveFreehand(p) ==
  IF isDrawing
  THEN /\ points' = Decimate(points, Clamped(p, dimensions), dimensions)
       /\ Len(points') <= MaxPoints
       /\ magnifierState' = p
  ELSE UNCHANGED <<points, magnifierState>>

\* mutant: the last vertex follows the pointer
movePolygonDragsLast(p) ==
  /\ magnifierState' = p
  /\ points' = IF Len(points) = 0 THEN points
               ELSE [points EXCEPT ![Len(points)] = Clamped(p, dimensions)]

\* tool === 'polygon': the magnifier only
movePolygon(p) ==
  /\ magnifierState' = p
  /\ UNCHANGED points

handlePointerMove(p) ==
  /\ cursorPos' = Clamped(p, dimensions)
  /\ IF tool = "move" THEN moveDrag(p)
     ELSE IF tool = "freehand" THEN moveFreehand(p)
     ELSE movePolygon(p)

handlePointerUp ==
  /\ IF tool = "freehand" /\ isDrawing THEN
          /\ historyStep + 2 <= MaxHistory
          /\ isDrawing' = FALSE
          /\ saveHistory(rPoints)
          /\ magnifierState' = Null
          /\ UNCHANGED draggingPointIndex
     ELSE IF tool = "move" /\ draggingPointIndex # NullIndex THEN
          /\ historyStep + 2 <= MaxHistory
          /\ draggingPointIndex' = NullIndex
          /\ saveHistory(rPoints)
          /\ magnifierState' = Null
          /\ UNCHANGED isDrawing
     ELSE /\ magnifierState' = IF tool = "polygon" THEN Null ELSE magnifierState
          /\ UNCHANGED <<isDrawing, draggingPointIndex, history, historyStep>>
  /\ UNCHANGED points

----------------------------------------------------------------------------
(* Toolbar handlers *)

\* mutant: the live contour is not replaced
handleUndoKeepsPoints ==
  IF historyStep > 0
  THEN /\ historyStep' = historyStep - 1
       /\ UNCHANGED <<points, history>>
  ELSE UNCHANGED <<historyStep, points, history>>

handleUndo ==
  IF historyStep > 0
  THEN /\ historyStep' = historyStep - 1
       /\ points' = history[historyStep' + 1]
       /\ UNCHANGED history
  ELSE UNCHANGED <<historyStep, points, history>>

\* mutant: the snapshot at the old cursor is restored
handleRedoOldSnapshot ==
  IF historyStep < Len(history) - 1
  THEN /\ historyStep' = historyStep + 1
       /\ points' = history[historyStep + 1]
       /\ UNCHANGED history
  ELSE UNCHANGED <<historyStep, points, history>>

handleRedo ==
  IF historyStep < Len(history) - 1
  THEN /\ historyStep' = historyStep + 1
       /\ points' = history[historyStep' + 1]
       /\ UNCHANGED history
  ELSE UNCHANGED <<historyStep, points, history>>

\* mutant: the contour is emptied but nothing is committed
handleClearNoCommit ==
  /\ points' = << >>
  /\ UNCHANGED <<history, historyStep>>

handleClear ==
  /\ points' = << >>
  /\ saveHistory(<< >>)

\* the CutoutData handleFinish builds; aspectRatio is the fraction
\* <<width, height>>, 1 while no image is loaded
CutoutOf(pts) ==
  [points |-> pts, textureUrl |-> imageSrc,
   aspectRatio |-> IF imageElement # Null THEN imageElement ELSE <<1, 1>>]

IncompleteContour == "Please draw a loop to crop."

\* mutant: the contour is handed over whatever its length
handleFinishNoGuard ==
  /\ cutoutData' = <<CutoutOf(rPoints)>>
  /\ mode' = "VIEW_3D"
  /\ UNCHANGED alertMessage

\* handleFinish, with App's handleCropFinish as onFinish
handleFinish ==
  IF Len(rPoints) < MinFinishPoints
  THEN /\ alertMessage' = IncompleteContour
       /\ UNCHANGED <<cutoutData, mode>>
  ELSE /\ cutoutData' = <<CutoutOf(rPoints)>>
       /\ mode' = "VIEW_3D"
       /\ UNCHANGED alertMessage

----------------------------------------------------------------------------
(* Events *)

PointerDown(p) ==
  /\ Mounted
  /\ UNCHANGED appVars
  /\ inStroke' = (tool = "freehand")
  /\ handlePointerDown(p)
  /\ UNCHANGED <<tool, cursorPos, dimensions, imageElement, container>>
  /\ Flush

\* mutant: a drag writes the point into the array it read, which the
\* snapshots made from it share
PointerMoveInPlace(p) ==
  /\ Mounted
  /\ UNCHANGED appVars
  /\ handlePointerMove(p)
  /\ history' = [h \in 1..Len(history) |->
                  IF tool = "move" /\ draggingPointIndex # NullIndex
                     /\ history[h] = rPoints
                  THEN points' ELSE history[h]]
  /\ UNCHANGED <<rPoints, historyStep, tool, draggingPointIndex,
                 isDrawing, dimensions, imageElement, container, crashed,
                 inStroke>>

\* the updates of a pointermove wait for Render
PointerMove(p) ==
  /\ Mounted
  /\ UNCHANGED appVars
  /\ handlePointerMove(p)
  /\ UNCHANGED <<rPoints, history, historyStep, tool, draggingPointIndex,
                 isDrawing, dimensions, imageElement, container, crashed,
                 inStroke>>

PointerUp ==
  /\ Mounted
  /\ UNCHANGED appVars
  /\ inStroke' = FALSE
  /\ handlePointerUp
  /\ UNCHANGED <<tool, cursorPos, dimensions, imageElement, container>>
  /\ Flush

\* onPointerLeave: handlePointerUp(); setCursorPos(null)
PointerLeave ==
  /\ Mounted
  /\ UNCHANGED appVars
  /\ inStroke' = FALSE
  /\ handlePointerUp
  /\ cursorPos' = Null
  /\ UNCHANGED <<tool, dimensions, imageElement, container>>
  /\ Flush

\* mutant: undo also drops the cursor position
UndoDropsCursor ==
  /\ Mounted
  /\ UNCHANGED appVars
  /\ inStroke' = FALSE
  /\ handleUndo
  /\ cursorPos' = Null
  /\ UNCHANGED <<tool, draggingPointIndex, isDrawing, dimensions,
                 imageElement, container, magnifierState>>
  /\ Flush

Undo ==
  /\ Mounted
  /\ UNCHANGED appVars
  /\ inStroke' = FALSE
  /\ handleUndo
  /\ UNCHANGED <<tool, cursorPos, draggingPointIndex, isDrawing, dimensions,
                 imageElement, container, magnifierState>>
  /\ Flush

Redo ==
  /\ Mounted
  /\ UNCHANGED appVars
  /\ inStroke' = FALSE
  /\ handleRedo
  /\ UNCHANGED <<tool, cursorPos, draggingPointIndex, isDrawing, dimensions,
                 imageElement, container, magnifierState>>
  /\ Flush

\* the Clear button is disabled while the rendered contour is empty; the
\* history it leaves has at most n entries
ClearWithin(n) ==
  /\ Mounted
  /\ UNCHANGED appVars
  /\ inStroke' = FALSE
  /\ Len(rPoints) # 0
  /\ historyStep + 2 <= n
  /\ handleClear
  /\ UNCHANGED <<tool, cursorPos, draggingPointIndex, isDrawing, dimensions,
                 imageElement, container, magnifierState>>
  /\ Flush

Clear == ClearWithin(MaxHistory)

\* mutant: selecting a tool starts from an empty contour
SetToolResetsContour(t) ==
  /\ Mounted
  /\ UNCHANGED appVars
  /\ inStroke' = FALSE
  /\ tool' = t
  /\ points' = << >>
  /\ UNCHANGED <<history, historyStep, cursorPos, draggingPointIndex,
                 isDrawing, dimensions, imageElement, container,
                 magnifierState>>
  /\ Flush

SetTool(t) ==
  /\ Mounted
  /\ UNCHANGED appVars
  /\ inStroke' = FALSE
  /\ tool' = t
  /\ UNCHANGED <<points, history, historyStep, cursorPos, draggingPointIndex,
                 isDrawing, dimensions, imageElement, container,
                 magnifierState>>
  /\ Flush

\* img.onload, then the effect that calls fitImage
ImageLoad ==
  /\ Mounted
  /\ UNCHANGED appVars
  /\ inStroke' = FALSE
  /\ imageElement = Null
  /\ imageElement' = ImageSize
  /\ dimensions' = Fit(container, ImageSize)
  /\ UNCHANGED <<points, history, historyStep, tool, cursorPos,
                 draggingPointIndex, isDrawing, container, magnifierState>>
  /\ Flush

\* window resize: fitImage returns early while no image is loaded
Resize(c) ==
  /\ Mounted
  /\ UNCHANGED appVars
  /\ inStroke' = FALSE
  /\ c # container
  /\ container' = c
  /\ dimensions' = IF imageElement = Null THEN dimensions
                   ELSE Fit(c, imageElement)
  /\ UNCHANGED <<points, history, historyStep, tool, cursorPos,
                 draggingPointIndex, isDrawing, imageElement, magnifierState>>
  /\ Flush

\* the scheduled render of the updates queued by pointermove
Render ==
  /\ Mounted
  /\ UNCHANGED appVars
  /\ rPoints # points
  /\ rPoints' = points
  /\ crashed' = DrawThrows(points, dimensions, imageElement)
  /\ UNCHANGED <<points, history, historyStep, tool, cursorPos,
                 draggingPointIndex, isDrawing, dimensions, imageElement,
                 container, magnifierState, inStroke>>

\* mutant: the editor keeps its state across a successful Finish
FinishKeepsEditor ==
  /\ Mounted
  /\ handleFinish
  /\ inStroke' = FALSE
  /\ UNCHANGED <<imageSrc, settings, viewer, container, crashed>>
  /\ UNCHANGED <<points, rPoints, history, historyStep, tool, cursorPos,
                 draggingPointIndex, isDrawing, dimensions, imageElement,
                 magnifierState>>

\* the "Make 3D" button; when handleFinish hands the contour over, App
\* leaves the DRAW mode and the editor is unmounted, its state discarded
Finish ==
  /\ Mounted
  /\ handleFinish
  /\ inStroke' = FALSE
  /\ UNCHANGED <<imageSrc, settings, viewer, container, crashed>>
  /\ IF mode' = "DRAW"
     THEN UNCHANGED <<points, rPoints, history, historyStep, tool, cursorPos,
                      draggingPointIndex, isDrawing, dimensions,
                      imageElement, magnifierState>>
     ELSE /\ points' = << >>
          /\ rPoints' = << >>
          /\ history' = << << >> >>
          /\ historyStep' = 0
          /\ tool' = "freehand"
          /\ cursorPos' = Null
          /\ draggingPointIndex' = NullIndex
          /\ isDrawing' = FALSE
          /\ dimensions' = InitialDimensions
          /\ imageElement' = Null
          /\ magnifierState' = Null

\* unmounting discards the editor's state: the variables take the values
\* a newly mounted editor starts with
EditorUnmount ==
  /\ points' = << >>
  /\ rPoints' = << >>
  /\ history' = << << >> >>
  /\ historyStep' = 0
  /\ tool' = "freehand"
  /\ cursorPos' = Null
  /\ draggingPointIndex' = NullIndex
  /\ isDrawing' = FALSE
  /\ dimensions' = InitialDimensions
  /\ imageElement' = Null
  /\ magnifierState' = Null
  /\ inStroke' = FALSE

editorVars == <<points, rPoints, history, historyStep, tool, cursorPos,
                draggingPointIndex, isDrawing, dimensions, imageElement,
                magnifierState, inStroke>>

----------------------------------------------------------------------------
(* ThreeViewer *)

\* the canvas size in CSS pixels and gl.capabilities.maxTextureSize
ViewportSize == <<800, 600>>

MaxTextureSize == 4096

\* the multipliers of the export dialog the model selects
Scales == {1, 2, 8}

\* snapshot requests per viewer, and downloads after which the model stops
MaxTrigger == 2

MaxDownloads == 3

ResolutionTooHigh ==
  "Resolution too high. Max supported: 4096px. Try a lower scale."

ExportFailed == "Export failed"

Max(a, b) == IF a > b THEN a ELSE b

\* maxDimension > webglMax
TooLarge(scale) ==
  Max(ViewportSize[1], ViewportSize[2]) * scale > MaxTextureSize

\* App renders ThreeViewer for mode VIEW_3D with cutout data
ViewerMounted ==
  /\ ~crashed
  /\ mode = "VIEW_3D"
  /\ Len(cutoutData) = 1
  /\ viewer.downloads < MaxDownloads
  /\ viewer.glbParsing + viewer.glbDownloads + viewer.glbAlerts < MaxDownloads

\* the React state of the viewer: a render follows when it has changed
ReactState(v) ==
  <<v.captureTrigger, v.captureScale, v.showExportDialog, v.isProcessing,
    v.exportError, v.pendingScale, v.glbExportTrigger, v.isExportingGLB>>

\* mutant: the busy flag is left set after the download
onCaptureCompleteKeepsBusy(v) ==
  [v EXCEPT !.downloads = @ + 1,
            !.exportError = NoExportError]

onCaptureComplete(v) ==
  [v EXCEPT !.downloads = @ + 1,
            !.isProcessing = FALSE,
            !.exportError = NoExportError]

onCaptureError(v, msg) ==
  [v EXCEPT !.isProcessing = FALSE,
            !.exportError = msg,
            !.showExportDialog = TRUE]

handleExportConfirm(v, scale) ==
  [v EXCEPT !.showExportDialog = FALSE,
            !.exportError = NoExportError,
            !.isProcessing = TRUE,
            !.pendingScale = scale]

\* the pendingScale effect after the render of v, r being the render
\* before it: it runs when pendingScale or isProcessing has changed, first
\* the cleanup of its last run (clearTimeout), and queues its updates on v
PendingScaleEffect(r, v) ==
  IF <<v.pendingScale, v.isProcessing>> = <<r.pendingScale, r.isProcessing>>
  THEN v
  ELSE IF v.pendingScale # NoScale /\ v.isProcessing
       THEN [v EXCEPT !.captureScale = v.pendingScale, !.timer = TRUE]
       ELSE [v EXCEPT !.timer = FALSE]

\* the effect of ScreenshotHandler for the props of the render p, queueing
\* on v: onCapture and onError are new functions in every render of the
\* viewer, so the effect runs after every render.  A capture that throws
\* leaves the pixel ratio, background and visibility it has set.
ScreenshotEffect(p, v) ==
  IF p.captureTrigger = 0 THEN v
  ELSE IF TooLarge(p.captureScale) THEN onCaptureError(v, ResolutionTooHigh)
  ELSE IF v.captureThrows
       THEN onCaptureError([v EXCEPT !.pixelRatio = p.captureScale,
                                     !.background = "null",
                                     !.shadowsVisible = FALSE],
                           ExportFailed)
       ELSE onCaptureComplete(v)

handleExportGLB(v) ==
  [v EXCEPT !.isExportingGLB = TRUE, !.glbExportTrigger = @ + 1]

onGLBExportComplete(v) ==
  [v EXCEPT !.glbDownloads = @ + 1, !.isExportingGLB = FALSE]

onGLBExportError(v) ==
  [v EXCEPT !.glbAlerts = @ + 1, !.isExportingGLB = FALSE]

\* the effect of GLBExportHandler for the props of the render p, queueing
\* on v: onExport and onError are new functions in every render of the
\* viewer, so the effect runs after every render; exporter.parse calls
\* back later
GLBExportEffect(p, v) ==
  IF p.glbExportTrigger = 0 THEN v
  ELSE [v EXCEPT !.glbParsing = @ + 1]

\* the states the viewer may settle in from the state v with its updates
\* queued, r being the last render; props tells whether the props have
\* changed.  The canvas has a renderer root of its own: a render that the
\* pendingScale effect supersedes at once may or may not reach it.
RECURSIVE Settle(_, _, _)
Settle(r, v, props) ==
  IF ~props /\ ReactState(v) = ReactState(r)
  THEN {v}
  ELSE LET a == PendingScaleEffect(r, v)
       IN Settle(v, GLBExportEffect(v, ScreenshotEffect(v, a)), FALSE)
          \cup (IF ReactState(a) # ReactState(v)
                THEN Settle(v, a, FALSE)
                ELSE {})

\* "Back to Edit" of the 3D view: setMode(DRAW); App mounts a new editor
BackToEdit ==
  /\ ~crashed
  /\ mode = "VIEW_3D"
  /\ Len(cutoutData) = 1
  /\ mode' = "DRAW"
  /\ viewer' = FreshViewer(viewer.captureThrows)
  /\ UNCHANGED <<imageSrc, cutoutData, alertMessage, settings>>
  /\ UNCHANGED <<editorVars, container, crashed>>

\* "Start Over" of the header: back to the upload view with nothing kept;
\* a mounted editor is unmounted
StartOver ==
  /\ ~crashed
  /\ mode # "UPLOAD"
  /\ mode' = "UPLOAD"
  /\ cutoutData' = Null
  /\ imageSrc' = NoImageSrc
  /\ EditorUnmount
  /\ viewer' = FreshViewer(viewer.captureThrows)
  /\ UNCHANGED <<alertMessage, settings, container, crashed>>

\* handleFileUpload with the reader's onload: the image becomes the source
\* and App mounts a new editor
Upload(src) ==
  /\ ~crashed
  /\ mode = "UPLOAD"
  /\ imageSrc' = src
  /\ mode' = "DRAW"
  /\ UNCHANGED <<cutoutData, alertMessage, settings, viewer>>
  /\ UNCHANGED <<editorVars, container, crashed>>

InvalidProject == "Invalid project file"

\* handleLoadProject with the reader's onload, for the parsed file f: the
\* updates queued before a property read throws are applied all the same,
\* and a field the file lacks reads as undefined
LoadProject(f) ==
  /\ ~crashed
  /\ mode = "UPLOAD"
  /\ IF ~f.parses
     THEN /\ alertMessage' = InvalidProject
          /\ UNCHANGED <<cutoutData, imageSrc, settings, mode>>
     ELSE IF f.cutoutData = Undefined
     THEN /\ cutoutData' = Undefined
          /\ alertMessage' = InvalidProject
          /\ UNCHANGED <<imageSrc, settings, mode>>
     ELSE IF f.settings = Undefined
     THEN /\ cutoutData' = f.cutoutData
          /\ imageSrc' = f.cutoutData[1].textureUrl
          /\ alertMessage' = InvalidProject
          /\ UNCHANGED <<settings, mode>>
     ELSE /\ cutoutData' = f.cutoutData
          /\ imageSrc' = f.cutoutData[1].textureUrl
          /\ settings' = f.settings[1]
          /\ mode' = "VIEW_3D"
          /\ UNCHANGED alertMessage
  /\ UNCHANGED <<viewer, editorVars, container, crashed>>

\* a control of the 3D view's sidebar sets the setting n; the viewer is
\* rendered again with the new props
SetSetting(n) ==
  /\ ViewerMounted
  /\ settings' = [settings EXCEPT ![n] = "chosen"]
  /\ viewer' \in Settle(viewer, viewer, settings' # settings)
  /\ UNCHANGED <<mode, imageSrc, cutoutData, alertMessage>>
  /\ UNCHANGED <<editorVars, container, crashed>>

\* the "HD Snapshot" button, disabled while a snapshot is processed
OpenExportDialog ==
  /\ ViewerMounted
  /\ ~viewer.isProcessing
  /\ viewer' \in
       Settle(viewer, [viewer EXCEPT !.showExportDialog = TRUE], FALSE)
  /\ UNCHANGED <<mode, imageSrc, cutoutData, alertMessage, settings>>
  /\ UNCHANGED <<editorVars, container, crashed>>

\* Cancel or X of the export dialog
CloseExportDialog ==
  /\ ViewerMounted
  /\ viewer.showExportDialog
  /\ viewer' \in
       Settle(viewer, [viewer EXCEPT !.showExportDialog = FALSE], FALSE)
  /\ UNCHANGED <<mode, imageSrc, cutoutData, alertMessage, settings>>
  /\ UNCHANGED <<editorVars, container, crashed>>

\* "Save Image" of the export dialog with the multiplier selected in it
ExportConfirm(scale) ==
  /\ ViewerMounted
  /\ viewer.showExportDialog
  /\ viewer.captureTrigger < MaxTrigger
  /\ viewer' \in Settle(viewer, handleExportConfirm(viewer, scale), FALSE)
  /\ UNCHANGED <<mode, imageSrc, cutoutData, alertMessage, settings>>
  /\ UNCHANGED <<editorVars, container, crashed>>

\* the 150 ms timer of the pendingScale effect fires
TimerFires ==
  /\ ViewerMounted
  /\ viewer.timer
  /\ viewer' \in
       Settle(viewer,
              [viewer EXCEPT !.timer = FALSE,
                             !.captureTrigger = @ + 1,
                             !.pendingScale = NoScale],
              FALSE)
  /\ UNCHANGED <<mode, imageSrc, cutoutData, alertMessage, settings>>
  /\ UNCHANGED <<editorVars, container, crashed>>

\* the "Export GLB" button, disabled while an export is running
ExportGLB ==
  /\ ViewerMounted
  /\ ~viewer.isExportingGLB
  /\ viewer.glbExportTrigger < MaxTrigger
  /\ viewer' \in Settle(viewer, handleExportGLB(viewer), FALSE)
  /\ UNCHANGED <<mode, imageSrc, cutoutData, alertMessage, settings>>
  /\ UNCHANGED <<editorVars, container, crashed>>

\* a callback of exporter.parse: the result (ok) or an error
ExporterDone(ok) ==
  /\ ViewerMounted
  /\ viewer.glbParsing > 0
  /\ LET v == [viewer EXCEPT !.glbParsing = @ - 1]
     IN viewer' \in Settle(viewer,
                           IF ok THEN onGLBExportComplete(v)
                                 ELSE onGLBExportError(v),
                           FALSE)
  /\ UNCHANGED <<mode, imageSrc, cutoutData, alertMessage, settings>>
  /\ UNCHANGED <<editorVars, container, crashed>>

Next ==
  \/ \E p \in Pointers : PointerDown(p)
  \/ \E p \in Pointers : PointerMove(p)
  \/ PointerUp
  \/ PointerLeave
  \/ Undo
  \/ Redo
  \/ Clear
  \/ \E t \in ToolType : SetTool(t)
  \/ ImageLoad
  \/ Render

\* the editor in a window that keeps its size
Spec == Init /\ [][Next]_vars

NextResize == Next \/ \E c \in ContainerSizes : Resize(c)

\* the editor in a window that may be resized at any time
SpecResize == Init /\ [][NextResize]_vars

----------------------------------------------------------------------------
(* Steps, named by the event and the state it is handled in *)

PolygonClick(p) == tool = "polygon" /\ PointerDown(p)

StrokeActive == tool = "freehand" /\ isDrawing

DragActive == tool = "move" /\ draggingPointIndex # NullIndex

\* pointer-up or pointer-leave that ends a stroke or a drag
EndStep == (StrokeActive \/ DragActive) /\ (PointerUp \/ PointerLeave)

\* the steps that call saveHistory
CommitStep == (\E p \in Pointers : PolygonClick(p)) \/ EndStep \/ Clear

----------------------------------------------------------------------------
(* HistoryStack claims *)

C2_Undo ==
  [][Undo =>
       /\ history' = history
       /\ IF historyStep > 0
          THEN /\ historyStep' = historyStep - 1
               /\ points' = history[historyStep]
          ELSE /\ historyStep' = historyStep
               /\ points' = points]_vars

\* the state an undo of a non-empty snapshot leaves
C2_Witness ==
  /\ historyStep = 0
  /\ Len(history) = 2
  /\ history[2] # << >>
  /\ points = << >>
  /\ ~isDrawing
  /\ draggingPointIndex = NullIndex

\* C3: redo with the cursor below the last index raises the cursor by
\* exactly one and makes the live contour the snapshot at the new cursor;
\* at the tail it changes neither cursor nor live contour; it never changes
\* the history.
C3_Redo ==
  [][Redo =>
       /\ history' = history
       /\ IF historyStep < Len(history) - 1
          THEN /\ historyStep' = historyStep + 1
               /\ points' = history[historyStep + 2]
          ELSE /\ historyStep' = historyStep
               /\ points' = points]_vars

\* the state a redo leaves when the live contour had been emptied by undo
\* and by nothing else: the tail snapshot is live again while the editor
\* holds a tool that never commits on its own
C3_Witness ==
  /\ historyStep = 1
  /\ Len(history) = 2
  /\ history[2] # << >>
  /\ points = history[2]
  /\ tool = "move"
  /\ draggingPointIndex = NullIndex

C5_CursorInRange ==
  /\ history = << << >> >> /\ historyStep = 0 /\ points = << >>
  /\ [](0 <= historyStep /\ historyStep < Len(history))

\* the cursor below the tail of a history of two
C5_Witness ==
  /\ Len(history) = MaxHistory
  /\ historyStep = 0
  /\ points # << >>

----------------------------------------------------------------------------
(* ContourEditor claims: Freehand and Polygon *)

\* C6: a Freehand stroke (pointer-down, pointer-moves, pointer-up, nothing
\* else in between) adds exactly one snapshot, at pointer-up; the snapshot
\* is the live contour at that moment and pointer-up leaves the live
\* contour as it is; pointer-down and the pointer-moves of the stroke leave
\* history and cursor alone.
C6_StrokeCommitsLiveContour ==
  /\ [][(inStroke /\ PointerUp) =>
          /\ Len(history') = historyStep + 2
          /\ historyStep' = historyStep + 1
          /\ SubSeq(history', 1, historyStep + 1)
               = SubSeq(history, 1, historyStep + 1)
          /\ history'[Len(history')] = points'
          /\ points' = points]_vars
  /\ [][(tool = "freehand" /\ \E p \in Pointers : PointerDown(p)) =>
          UNCHANGED <<history, historyStep>>]_vars
  /\ [][(inStroke /\ \E p \in Pointers : PointerMove(p)) =>
          UNCHANGED <<history, historyStep>>]_vars

\* C7: in Freehand with the editor idle, pointer-down appends exactly the
\* clamped normalized pointer position to the live contour, sets
\* stroke-active and leaves history and cursor unchanged.
C7_FreehandDown ==
  [][\A p \in Pointers :
       (tool = "freehand" /\ ~isDrawing /\ draggingPointIndex = NullIndex
          /\ PointerDown(p)) =>
         /\ points' = Append(points, Clamped(p, dimensions))
         /\ isDrawing'
         /\ UNCHANGED <<history, historyStep>>]_vars

\* the first pointer-down of a first stroke
C7_Witness ==
  /\ inStroke
  /\ isDrawing
  /\ Len(points) = 1
  /\ history = << << >> >>
  /\ historyStep = 0
  /\ magnifierState # Null

C10_PolygonMoveUpFrame ==
  /\ [][(tool = "polygon" /\ \E p \in Pointers : PointerMove(p)) =>
          UNCHANGED <<points, rPoints, history, historyStep, tool,
                      draggingPointIndex, isDrawing, dimensions,
                      imageElement, container, crashed>>]_vars
  /\ [][(tool = "polygon" /\ PointerUp) =>
          UNCHANGED <<points, history, historyStep, tool, cursorPos,
                      draggingPointIndex, isDrawing, dimensions,
                      imageElement, container>>]_vars

\* the rubber band: a vertex clicked, then the pointer moved elsewhere
C10_Witness ==
  /\ tool = "polygon"
  /\ Len(points) = 1
  /\ history[historyStep + 1] = points
  /\ cursorPos # Null
  /\ cursorPos # points[1]
  /\ magnifierState # Null

----------------------------------------------------------------------------
(* Freehand decimation on a fine pointer grid *)

\* the editor right after the pointer-down that starts a first stroke at p,
\* in either window size, before or after the image has loaded
InitDecimate ==
  \E p \in GeoPointers, c \in ContainerSizes, loaded \in BOOLEAN :
    /\ container = c
    /\ imageElement = IF loaded THEN ImageSize ELSE Null
    /\ dimensions = IF loaded THEN Fit(c, ImageSize) ELSE InitialDimensions
    /\ points = <<Clamped(p, dimensions)>>
    /\ rPoints = points
    /\ history = << << >> >>
    /\ historyStep = 0
    /\ tool = "freehand"
    /\ cursorPos = Null
    /\ draggingPointIndex = NullIndex
    /\ isDrawing = TRUE
    /\ magnifierState = p
    /\ crashed = FALSE
    /\ inStroke = TRUE
    /\ AppDrawing

NextDecimate ==
  \/ \E p \in GeoPointers : PointerMove(p)
  \/ Render
  \/ ImageLoad

SpecDecimate == InitDecimate /\ [][NextDecimate]_vars

\* squared sub-pixel distance between the screen positions of two
\* normalized points
ScreenDist2(a, b, d) ==
  LET sa == toScreen(a, d)
      sb == toScreen(b, d)
      dx == Sub(sb[1], sa[1])
      dy == Sub(sb[2], sa[2])
  IN Add(Mul(dx, dx), Mul(dy, dy))

ExceedsThreshold(d2) == d2 # NaN /\ d2 > 10 * Den * Den

\* squared pixel distance between two pointer positions
PixelDist2(p, q) ==
  (q[1] - p[1]) * (q[1] - p[1]) + (q[2] - p[2]) * (q[2] - p[2])

\* C8: while a stroke is active on a non-empty contour, a pointer-move
\* appends the clamped point exactly when its squared screen distance from
\* the last point of the contour is strictly greater than 10, and leaves
\* the contour unchanged otherwise; a move within the threshold of the
\* event before it appends nothing when that event supplied the last point
\* (so a dense drag appends fewer points than it has events); and no two
\* consecutive points appended by moves are within the threshold.
C8_Decimation ==
  /\ [][\A p \in GeoPointers :
          (tool = "freehand" /\ isDrawing /\ Len(points) > 0
             /\ PointerMove(p)) =>
            LET c == Clamped(p, dimensions)
            IN IF ExceedsThreshold(
                    ScreenDist2(points[Len(points)], c, dimensions))
               THEN points' = Append(points, c)
               ELSE points' = points]_vars
  /\ [][\A p \in GeoPointers :
          (inStroke /\ PixelDist2(magnifierState, p) <= 10
             /\ points[Len(points)] = Clamped(magnifierState, dimensions)
             /\ PointerMove(p)) =>
            points' = points]_vars
  /\ [](\A i \in 2..Len(points) :
          ExceedsThreshold(ScreenDist2(points[i - 1], points[i], dimensions)))

\* a point was appended by a move and the move after it, to another
\* position, was filtered out
C8_Witness ==
  /\ isDrawing
  /\ Len(points) = 2
  /\ cursorPos # Null
  /\ cursorPos # points[2]
  /\ magnifierState # Null
  /\ PixelDist2(<<13, 12>>, magnifierState) <= 10
  /\ points[2] = Clamped(<<13, 12>>, dimensions)

----------------------------------------------------------------------------
(* ContourEditor claims: Move *)

\* the contour element pt is a point whose screen position is less than the
\* hit radius away from the pointer p
WithinRadius(pt, p, d) ==
  /\ IsPoint(pt)
  /\ Dist2(pt, p, d) # NaN
  /\ Dist2(pt, p, d) < (HitRadius * Den) * (HitRadius * Den)

MoveDown(p) == tool = "move" /\ PointerDown(p)

\* C11: in Move, pointer-down records as drag index the index the hit test
\* returns exactly when some point of the live contour is within the hit
\* radius of the pointer; when none is (an empty contour included) it
\* changes no editor state; in both cases the live contour, the history and
\* the cursor are unchanged.
C11_MoveDown ==
  [][\A p \in Pointers :
       MoveDown(p) =>
         /\ UNCHANGED <<points, history, historyStep>>
         /\ IF \E i \in 1..Len(points) : WithinRadius(points[i], p, dimensions)
            THEN /\ draggingPointIndex' = HitTest(points, p, dimensions)
                 /\ draggingPointIndex' # NullIndex
            ELSE UNCHANGED <<tool, cursorPos, draggingPointIndex, isDrawing,
                             dimensions, imageElement, container,
                             magnifierState>>]_vars

----------------------------------------------------------------------------
(* The hit test on a fine grid *)

\* the contours of at most MaxPoints points of HitPoints
HitContours ==
  UNION {[1..n -> HitPoints] : n \in 0..MaxPoints}

\* the editor after the points of a contour were clicked one by one with
\* the Polygon tool and the Move tool was selected, in either window size,
\* before or after the image has loaded
InitHit ==
  \E pts \in HitContours, c \in ContainerSizes, loaded \in BOOLEAN :
    /\ container = c
    /\ imageElement = IF loaded THEN ImageSize ELSE Null
    /\ dimensions = IF loaded THEN Fit(c, ImageSize) ELSE InitialDimensions
    /\ points = pts
    /\ rPoints = pts
    /\ history = [i \in 1..(Len(pts) + 1) |-> SubSeq(pts, 1, i - 1)]
    /\ historyStep = Len(pts)
    /\ tool = "move"
    /\ cursorPos = Null
    /\ draggingPointIndex = NullIndex
    /\ isDrawing = FALSE
    /\ magnifierState = Null
    /\ crashed = FALSE
    /\ inStroke = FALSE
    /\ AppDrawing

NextHit == \E p \in HitPointers : PointerDown(p)

SpecHit == InitHit /\ [][NextHit]_vars

\* C12: the index a Move pointer-down selects on an idle editor is that of
\* a contour point whose screen distance to the pointer is strictly less
\* than 30 px and no larger than that of any other point, and the lowest
\* such index; a point at distance exactly 30 is not selected; no index is
\* selected when no point is within the radius.
C12_HitTest ==
  [][\A p \in HitPointers :
       (draggingPointIndex = NullIndex /\ MoveDown(p)) =>
         LET j == draggingPointIndex' + 1
             dist2(i) == Dist2(points[i], p, dimensions)
         IN IF \E i \in 1..Len(points) : WithinRadius(points[i], p, dimensions)
            THEN /\ j \in 1..Len(points)
                 /\ dist2(j) < (30 * Den) * (30 * Den)
                 /\ \A i \in 1..Len(points) : dist2(i) >= dist2(j)
                 /\ \A i \in 1..(j - 1) : dist2(i) > dist2(j)
            ELSE draggingPointIndex' = NullIndex]_vars

\* two different points share the minimum distance, the first was selected,
\* and the image is fitted
C12_Witness ==
  /\ tool = "move"
  /\ draggingPointIndex = 0
  /\ Len(points) = 2
  /\ points[1] # points[2]
  /\ imageElement # Null
  /\ magnifierState # Null
  /\ Dist2(points[1], magnifierState, dimensions)
       = Dist2(points[2], magnifierState, dimensions)

----------------------------------------------------------------------------
(* ContourEditor claims: drag, clear, tool switch, leave, finish *)

DragMove(p) == DragActive /\ PointerMove(p)

\* C13: in Move with a drag active on index i, pointer-move replaces
\* exactly the point at index i of the live contour with the clamped
\* normalized pointer position; the length of the contour and every other
\* point are unchanged, and so are history and cursor.
C13_DragMove ==
  [][\A p \in Pointers :
       DragMove(p) =>
         /\ Len(points') = Len(points)
         /\ draggingPointIndex + 1 \in 1..Len(points')
         /\ points'[draggingPointIndex + 1] = Clamped(p, dimensions)
         /\ \A k \in 1..Len(points) :
              k # draggingPointIndex + 1 => points'[k] = points[k]
         /\ UNCHANGED <<history, historyStep>>]_vars

\* C14: in Move with a drag active, pointer-up ends the drag and adds
\* exactly one snapshot, equal to the live contour, which it leaves as it
\* is; pointer-moves of the drag add none; in Move with no drag active
\* pointer-up leaves history and cursor alone.
C14_DragEndCommits ==
  /\ [][(DragActive /\ PointerUp) =>
          /\ draggingPointIndex' = NullIndex
          /\ Len(history') = historyStep + 2
          /\ historyStep' = historyStep + 1
          /\ SubSeq(history', 1, historyStep + 1)
               = SubSeq(history, 1, historyStep + 1)
          /\ history'[Len(history')] = points
          /\ points' = points]_vars
  /\ [][\A p \in Pointers :
          DragMove(p) => UNCHANGED <<history, historyStep>>]_vars
  /\ [][(tool = "move" /\ draggingPointIndex = NullIndex /\ PointerUp) =>
          UNCHANGED <<history, historyStep, points>>]_vars

\* the depth of history in the runs that clear a committed contour
ClearDepth == MaxPoints + 2

\* the editor after the points of a contour were clicked one by one with
\* the Polygon tool, the image fitted, and any tool selected
InitClear ==
  \E pts \in HitContours, t \in ToolType :
    /\ container = InitialContainer
    /\ imageElement = ImageSize
    /\ dimensions = Fit(InitialContainer, ImageSize)
    /\ points = pts
    /\ rPoints = pts
    /\ history = [i \in 1..(Len(pts) + 1) |-> SubSeq(pts, 1, i - 1)]
    /\ historyStep = Len(pts)
    /\ tool = t
    /\ cursorPos = Null
    /\ draggingPointIndex = NullIndex
    /\ isDrawing = FALSE
    /\ magnifierState = Null
    /\ crashed = FALSE
    /\ inStroke = FALSE
    /\ AppDrawing

NextClear ==
  \/ ClearWithin(ClearDepth)
  \/ Undo
  \/ Redo
  \/ \E t \in ToolType : SetTool(t)
  \/ \E p \in Pointers : PointerDown(p)
  \/ PointerUp

SpecClear == InitClear /\ [][NextClear]_vars

\* C15: Clear, whatever the tool and whether or not a stroke or drag is
\* active, empties the live contour and commits the empty contour: the
\* history becomes its entries up to the cursor followed by the empty
\* contour, the cursor is on that last entry, and the entry below it is the
\* snapshot that was at the cursor before, which is what one undo restores.
C15_Clear ==
  [][ClearWithin(ClearDepth) =>
       /\ points' = << >>
       /\ history' = Append(SubSeq(history, 1, historyStep + 1), << >>)
       /\ historyStep' = Len(history') - 1
       /\ historyStep' = historyStep + 1
       /\ history'[historyStep'] = history[historyStep + 1]
       /\ UNCHANGED tool]_vars

\* a committed contour of two points was cleared: the cursor is on the
\* empty tail and the entry below is that contour
C15_Witness ==
  /\ points = << >>
  /\ historyStep = 3
  /\ Len(history) = 4
  /\ history[4] = << >>
  /\ Len(history[3]) = 2

\* C16: undo and redo change neither the tool nor the cursor position; of
\* the editor's variables they change at most the live contour and the
\* history cursor.
C16_UndoRedoFrame ==
  [][(Undo \/ Redo) =>
       UNCHANGED <<tool, cursorPos, history, draggingPointIndex, isDrawing,
                   dimensions, imageElement, container, magnifierState>>]_vars

\* a Polygon vertex undone while the pointer hovers over the surface
C16_Witness ==
  /\ tool = "polygon"
  /\ cursorPos # Null
  /\ historyStep = 0
  /\ Len(history) = 2
  /\ Len(history[2]) = 1
  /\ points = << >>

\* C17: selecting a tool, whichever it is and whatever the state, leaves
\* the live contour, the history and the history cursor unchanged.
C17_ToolSwitchFrame ==
  [][\A t \in ToolType :
       SetTool(t) => UNCHANGED <<points, history, historyStep>>]_vars

\* the tool was changed in the middle of a stroke of two uncommitted points
C17_Witness ==
  /\ tool = "polygon"
  /\ isDrawing
  /\ Len(points) = 2
  /\ history = << << >> >>
  /\ historyStep = 0

\* C18: immediately after a tool is selected the editor is idle: no stroke
\* is active and no drag index is recorded; hence a pointer-move that
\* follows a tool switch leaves the live contour unchanged.
C18_ToolSwitchClears ==
  /\ [][\A t \in ToolType :
          SetTool(t) => (~isDrawing' /\ draggingPointIndex' = NullIndex)]_vars
  /\ [][\A t \in ToolType :
          SetTool(t) =>
            \A p \in Pointers :
              LET c == Clamped(p, dimensions')
              IN /\ (tool' = "freehand" /\ isDrawing') =>
                      Decimate(points', c, dimensions') = points'
                 /\ (tool' = "move" /\ draggingPointIndex' # NullIndex) =>
                      AssignAt(Spread(points'), draggingPointIndex', c)
                        = points']_vars

\* C19: in every state in which a stroke or a drag is active, pointer-leave
\* ends it and adds exactly one snapshot, equal to the live contour, which
\* it leaves as it is; and no step ends a stroke or a drag without adding a
\* snapshot.
C19_LeaveCommits ==
  /\ [][((isDrawing \/ draggingPointIndex # NullIndex) /\ PointerLeave) =>
          /\ ~isDrawing'
          /\ draggingPointIndex' = NullIndex
          /\ Len(history') = historyStep + 2
          /\ historyStep' = historyStep + 1
          /\ history'[Len(history')] = points
          /\ points' = points]_vars
  /\ [][((isDrawing /\ ~isDrawing')
           \/ (draggingPointIndex # NullIndex
                 /\ draggingPointIndex' = NullIndex)) =>
          /\ Len(history') = historyStep + 2
          /\ historyStep' = historyStep + 1]_vars

----------------------------------------------------------------------------
(* Finish *)

\* the corners the contours handed to Finish are made of
FinishPoints == {<<0, 0>>, <<Den, Den>>}

FinishContours ==
  UNION {[1..n -> FinishPoints] : n \in 0..MinFinishPoints}

\* the editor after the points of a contour were clicked one by one with
\* the Polygon tool, with any tool selected, before or after the image has
\* loaded
InitFinish ==
  \E pts \in FinishContours, t \in ToolType, loaded \in BOOLEAN :
    /\ container = InitialContainer
    /\ imageElement = IF loaded THEN ImageSize ELSE Null
    /\ dimensions = IF loaded THEN Fit(InitialContainer, ImageSize)
                    ELSE InitialDimensions
    /\ points = pts
    /\ rPoints = pts
    /\ history = [i \in 1..(Len(pts) + 1) |-> SubSeq(pts, 1, i - 1)]
    /\ historyStep = Len(pts)
    /\ tool = t
    /\ cursorPos = Null
    /\ draggingPointIndex = NullIndex
    /\ isDrawing = FALSE
    /\ magnifierState = Null
    /\ crashed = FALSE
    /\ inStroke = FALSE
    /\ AppDrawing

NextFinish ==
  \/ Finish
  \/ Undo
  \/ \E t \in ToolType : SetTool(t)
  \/ \E p \in Pointers : PointerDown(p)
  \/ \E p \in Pointers : PointerMove(p)
  \/ Render

SpecFinish == InitFinish /\ [][NextFinish]_vars

\* C20: Finish with a live contour of fewer than three points hands no
\* CutoutData to the caller and leaves the app in the drawing mode; the
\* live contour, the history, the cursor and the tool are unchanged.
C20_FinishIncomplete ==
  [][(Len(points) < 3 /\ Finish) =>
       /\ cutoutData' = Null
       /\ mode' = "DRAW"
       /\ UNCHANGED <<cutoutData, mode, imageSrc, points, history,
                      historyStep, tool>>]_vars

\* Finish was refused on a contour of two points
C20_Witness ==
  /\ alertMessage = IncompleteContour
  /\ Len(points) = 2
  /\ mode = "DRAW"
  /\ cutoutData = Null

\* two fractions <<numerator, denominator>> of the same value
SameRatio(a, b) == a[1] * b[2] = a[2] * b[1]

\* C21: Finish with a live contour of three or more points hands over a
\* CutoutData whose points are the live contour, whose textureUrl is the
\* editor's image and whose aspectRatio is image width / image height, and
\* the app enters the 3D view holding exactly that CutoutData.
C21_FinishSucceeds ==
  [][(Len(points) >= 3 /\ Finish) =>
       /\ mode' = "VIEW_3D"
       /\ Len(cutoutData') = 1
       /\ cutoutData'[1].points = points
       /\ cutoutData'[1].textureUrl = imageSrc
       /\ SameRatio(cutoutData'[1].aspectRatio, ImageSize)]_vars

----------------------------------------------------------------------------
(* Editing sessions after a Finish *)

\* an editor holding a contour of three points clicked with the Polygon
\* tool, the image fitted
InitSession ==
  \E pts \in [1..MinFinishPoints -> FinishPoints] :
    /\ container = InitialContainer
    /\ imageElement = ImageSize
    /\ dimensions = Fit(InitialContainer, ImageSize)
    /\ points = pts
    /\ rPoints = pts
    /\ history = [i \in 1..(Len(pts) + 1) |-> SubSeq(pts, 1, i - 1)]
    /\ historyStep = Len(pts)
    /\ tool = "polygon"
    /\ cursorPos = Null
    /\ draggingPointIndex = NullIndex
    /\ isDrawing = FALSE
    /\ magnifierState = Null
    /\ crashed = FALSE
    /\ inStroke = FALSE
    /\ AppDrawing

NextSession ==
  \/ Finish
  \/ BackToEdit
  \/ StartOver
  \/ \E src \in ImageSources : Upload(src)
  \/ ImageLoad
  \/ \E p \in Pointers : PointerDown(p)
  \/ PointerUp
  \/ Undo

SpecSession == InitSession /\ [][NextSession]_vars

\* C22: an editing session entered after a successful Finish, by Back to
\* Edit or by a new upload, starts with an empty live contour, history =
\* [empty contour] and cursor 0; and no step taken inside the editor
\* afterwards changes the CutoutData handed off: it changes only when
\* another Finish succeeds or on Start Over.
C22_FinishTerminal ==
  /\ [][(BackToEdit \/ \E src \in ImageSources : Upload(src)) =>
          /\ mode' = "DRAW"
          /\ points' = << >>
          /\ history' = << << >> >>
          /\ historyStep' = 0]_vars
  /\ [][(cutoutData # Null /\ mode = "DRAW" /\ mode' = "DRAW") =>
          UNCHANGED cutoutData]_vars
  /\ [][(cutoutData # Null /\ cutoutData' # cutoutData) =>
          (Finish \/ StartOver)]_vars

\* back in the editor after a Finish: a new contour has been started while
\* the app still holds the three points handed off
C22_Witness ==
  /\ mode = "DRAW"
  /\ cutoutData # Null
  /\ Len(cutoutData[1].points) = 3
  /\ Len(points) = 1
  /\ Len(history) = 2
  /\ historyStep = 1

-----------------------------------------------------------------------------
(* Clamping *)

InUnitSquare(p) == IsPoint(p) /\ p[1] \in 0..Den /\ p[2] \in 0..Den

\* C23: every point of the live contour, every point of every history
\* snapshot and the polygon cursor, when set, have both coordinates in
\* [0, 1], whatever device coordinates the pointer events carried.
C23_Clamping ==
  /\ \A i \in 1..Len(points) : InUnitSquare(points[i])
  /\ \A h \in 1..Len(history) :
        \A i \in 1..Len(history[h]) : InUnitSquare(history[h][i])
  /\ cursorPos # Null => InUnitSquare(cursorPos)

-----------------------------------------------------------------------------
(* The fit in use *)

\* the fit of the image as it is shown now
CurrentFit ==
  imageElement # Null /\ dimensions = Fit(container, imageElement)

\* C24: every pointer-down and pointer-move is converted with the fit of the
\* current image in the current container: never with the placeholder fit
\* held before the image has loaded, nor with the fit of an earlier
\* container size.
C24_FitInUse ==
  [][\A p \in Pointers :
       (PointerDown(p) \/ PointerMove(p)) => CurrentFit]_vars

-----------------------------------------------------------------------------
(* Project files *)

\* the settings whose controls the model operates
EditedSettings == {"thickness", "lightColor"}

SavedCutout(url) ==
  [points |-> <<<<0, 0>>, <<Den, 0>>, <<Den, Den>>>>, textureUrl |-> url,
   aspectRatio |-> ImageSize]

SavedSettings == [n \in SettingNames |-> "saved"]

\* the files a user may pick: text that is not JSON, and JSON objects with
\* or without cutoutData, its textureUrl, settings and each settings field
ProjectFiles ==
  {[parses |-> FALSE, cutoutData |-> Undefined, settings |-> Undefined]}
  \cup
  {[parses |-> TRUE, cutoutData |-> c, settings |-> st] :
     c \in {Undefined, <<SavedCutout(UploadedImage)>>,
            <<SavedCutout(UndefinedStr)>>},
     st \in {Undefined, <<SavedSettings>>} \cup
            {<<[SavedSettings EXCEPT ![n] = UndefinedStr]>> :
               n \in SettingNames}}

\* f is JSON and has cutoutData, cutoutData.textureUrl, settings and every
\* settings field
WellFormed(f) ==
  /\ f.parses
  /\ f.cutoutData # Undefined
  /\ f.cutoutData[1].textureUrl # UndefinedStr
  /\ f.settings # Undefined
  /\ \A n \in SettingNames : f.settings[1][n] # UndefinedStr

\* App as it starts: the upload view, nothing loaded, no editor mounted
InitProject ==
  /\ points = << >>
  /\ rPoints = << >>
  /\ history = << << >> >>
  /\ historyStep = 0
  /\ tool = "freehand"
  /\ cursorPos = Null
  /\ draggingPointIndex = NullIndex
  /\ isDrawing = FALSE
  /\ dimensions = InitialDimensions
  /\ imageElement = Null
  /\ container = InitialContainer
  /\ magnifierState = Null
  /\ crashed = FALSE
  /\ inStroke = FALSE
  /\ mode = "UPLOAD"
  /\ imageSrc = NoImageSrc
  /\ cutoutData = Null
  /\ alertMessage = NoAlert
  /\ settings = DefaultSettings
  /\ viewer = FreshViewer(FALSE)

NextProject ==
  \/ \E f \in ProjectFiles : LoadProject(f)
  \/ \E src \in ImageSources : Upload(src)
  \/ StartOver
  \/ BackToEdit
  \/ \E n \in EditedSettings : SetSetting(n)
  \/ ImageLoad
  \/ \E p \in Pointers : PointerDown(p)
  \/ PointerUp
  \/ Finish

SpecProject == InitProject /\ [][NextProject]_vars

\* C25: loading a project file that is not JSON, or that lacks cutoutData,
\* cutoutData.textureUrl, settings or a settings field, is rejected: the
\* "Invalid project file" alert is shown and mode, image source, cutout
\* data and settings are unchanged.
C25_LoadRejected ==
  [][\A f \in ProjectFiles :
       (mode = "UPLOAD" /\ ~WellFormed(f) /\ LoadProject(f)) =>
         /\ alertMessage' = InvalidProject
         /\ UNCHANGED <<mode, imageSrc, cutoutData, settings>>]_vars

-----------------------------------------------------------------------------
(* Snapshot export *)

\* the 3D view of a loaded project, on a backend that renders snapshots or
\* on one that throws
InitViewer ==
  /\ points = << >>
  /\ rPoints = << >>
  /\ history = << << >> >>
  /\ historyStep = 0
  /\ tool = "freehand"
  /\ cursorPos = Null
  /\ draggingPointIndex = NullIndex
  /\ isDrawing = FALSE
  /\ dimensions = InitialDimensions
  /\ imageElement = Null
  /\ container = InitialContainer
  /\ magnifierState = Null
  /\ crashed = FALSE
  /\ inStroke = FALSE
  /\ mode = "VIEW_3D"
  /\ imageSrc = UploadedImage
  /\ cutoutData = <<SavedCutout(UploadedImage)>>
  /\ alertMessage = NoAlert
  /\ settings = SavedSettings
  /\ \E throws \in BOOLEAN : viewer = FreshViewer(throws)

NextViewer ==
  \/ OpenExportDialog
  \/ CloseExportDialog
  \/ \E scale \in Scales : ExportConfirm(scale)
  \/ TimerFires
  \/ \E n \in EditedSettings : SetSetting(n)

SpecViewer == InitViewer /\ [][NextViewer]_vars

RendererState(v) == <<v.pixelRatio, v.background, v.shadowsVisible>>

\* C26: a snapshot request whose raster size exceeds the maximum texture
\* size is rejected: from the confirmation to the run of the capture
\* effect no capture and no download happen and the pixel ratio,
\* background and visibility are unchanged, and when the timer has fired
\* the busy flag is cleared and the error naming the ceiling is shown with
\* the export dialog open.
C26_SnapshotRejected ==
  /\ [][\A scale \in Scales :
          (TooLarge(scale) /\ ExportConfirm(scale)) =>
            /\ viewer'.downloads = viewer.downloads
            /\ RendererState(viewer') = RendererState(viewer)]_vars
  /\ [][(viewer.isProcessing /\ TooLarge(viewer.pendingScale) /\ TimerFires) =>
          /\ viewer'.downloads = viewer.downloads
          /\ RendererState(viewer') = RendererState(viewer)
          /\ ~viewer'.isProcessing
          /\ viewer'.exportError = ResolutionTooHigh
          /\ viewer'.showExportDialog]_vars

-----------------------------------------------------------------------------
(* ExtrudedMesh: the shape and the UV of its vertices *)

\* Exact fractions <<numerator, denominator>> stand for the numbers of the
\* mesh; a normalized coordinate n is n / Den, an aspect ratio is the
\* fraction <<width, height>> itself.
Rat(n) == <<n, Den>>

Half == <<1, 2>>

One == <<1, 1>>

\* "scale" of the shape and of the UV remap
ShapeScale == <<5, 1>>

RNeg(a) == <<0 - a[1], a[2]>>

RAdd(a, b) == <<a[1] * b[2] + b[1] * a[2], a[2] * b[2]>>

RSub(a, b) == RAdd(a, RNeg(b))

RMul(a, b) == <<a[1] * b[1], a[2] * b[2]>>

\* a / b with the sign kept in the numerator; a zero divisor leaves the
\* denominator 0 (an infinity or NaN)
RDiv(a, b) ==
  IF b[1] < 0 THEN <<(0 - a[1]) * b[2], a[2] * (0 - b[1])>>
  ELSE <<a[1] * b[2], a[2] * b[1]>>

\* a === b for finite a and b
REq(a, b) == a[2] # 0 /\ b[2] # 0 /\ a[1] * b[2] = b[1] * a[2]

\* the least number of points the shape is built from
MinShapePoints == 3

\* data.points is present
HasPoints(data) == "points" \in DOMAIN data

\* !data.points || data.points.length < 3
Degenerate(data) ==
  ~HasPoints(data) \/ Len(data.points) < MinShapePoints

\* new THREE.Shape(): no vertex, no segment
EmptyShape == [vertices |-> << >>, closed |-> FALSE]

\* the forward transform of a normalized point; canvas y is flipped
ShapePoint(x, y, aspect) ==
  <<RMul(RMul(RSub(x, Half), ShapeScale), aspect),
    RNeg(RMul(RSub(y, Half), ShapeScale))>>

\* mutant: a path through whatever points there are
ShapeNoGuard(data) ==
  IF ~HasPoints(data) THEN EmptyShape
  ELSE [vertices |->
          [i \in 1..Len(data.points) |->
             ShapePoint(Rat(data.points[i][1]), Rat(data.points[i][2]),
                        data.aspectRatio)],
        closed |-> TRUE]

\* the shape of ExtrudedMesh: moveTo the first point, lineTo the others,
\* closePath
Shape(data) ==
  IF Degenerate(data) THEN EmptyShape
  ELSE [vertices |->
          [i \in 1..Len(data.points) |->
             ShapePoint(Rat(data.points[i][1]), Rat(data.points[i][2]),
                        data.aspectRatio)],
        closed |-> TRUE]

\* the outline segments of a shape: one lineTo per point after the first,
\* and the closing line
Segments(shape) ==
  IF Len(shape.vertices) = 0 THEN 0
  ELSE Len(shape.vertices) - 1 + (IF shape.closed THEN 1 ELSE 0)

\* building the shape throws when it reads x of an element that is no
\* point
ShapeThrows(data) ==
  /\ ~Degenerate(data)
  /\ \E i \in 1..Len(data.points) : ~IsPoint(data.points[i])

\* mutant: the UV without the flip of v
UVNoFlip(vertex, aspect) ==
  <<RAdd(RDiv(vertex[1], RMul(ShapeScale, aspect)), Half),
    RAdd(RNeg(RDiv(vertex[2], ShapeScale)), Half)>>

\* the UV the remap loop gives a vertex at <<x, y>> of the geometry
UVOf(vertex, aspect) ==
  <<RAdd(RDiv(vertex[1], RMul(ShapeScale, aspect)), Half),
    RSub(One, RAdd(RNeg(RDiv(vertex[2], ShapeScale)), Half))>>

\* contour points and aspect ratios of the project files of the model
MeshPoints == {<<20, 20>>, <<0, 80>>, <<80, 40>>}

AspectRatios == {<<1, 1>>, <<2, 1>>, <<1, 2>>}

MeshContours ==
  UNION {[1..n -> MeshPoints] : n \in 0..MinShapePoints}

\* well-formed project files with a contour of 0 to 3 points, and with no
\* points at all
MeshFiles ==
  {[parses |-> TRUE,
    cutoutData |-> <<[points |-> c, textureUrl |-> UploadedImage,
                      aspectRatio |-> a]>>,
    settings |-> <<SavedSettings>>] : c \in MeshContours, a \in AspectRatios}
  \cup
  {[parses |-> TRUE,
    cutoutData |-> <<[textureUrl |-> UploadedImage, aspectRatio |-> a]>>,
    settings |-> <<SavedSettings>>] : a \in AspectRatios}

\* the settings the geometry is built with
GeometrySettings == {"thickness", "bevelEnabled", "bevelSize"}

NextMesh ==
  \/ \E f \in MeshFiles : LoadProject(f)
  \/ StartOver
  \/ \E n \in GeometrySettings : SetSetting(n)

\* projects opened from the upload view and shown in the 3D view
SpecMesh == InitProject /\ [][NextMesh]_vars

\* the mesh of the cutout data is on show
MeshShown == mode = "VIEW_3D" /\ Len(cutoutData) = 1 /\ ~crashed

\* C27: the vertex of the shape made from a contour point (x, y), for a
\* positive aspect ratio, is given the UV (x, 1 - y), and the forward
\* transform of (u, 1 - v) is that vertex again; with aspect ratio 2 the
\* point (0.25, 0.25) gets the UV (0.25, 0.75).
C27_UVInverse ==
  /\ (MeshShown /\ ~Degenerate(cutoutData[1])) =>
        LET data == cutoutData[1]
            shape == Shape(data)
        IN \A i \in 1..Len(data.points) :
             LET uv == UVOf(shape.vertices[i], data.aspectRatio)
                 back == ShapePoint(uv[1], RSub(One, uv[2]), data.aspectRatio)
             IN /\ REq(uv[1], Rat(data.points[i][1]))
                /\ REq(uv[2], RSub(One, Rat(data.points[i][2])))
                /\ REq(back[1], shape.vertices[i][1])
                /\ REq(back[2], shape.vertices[i][2])
  /\ LET uv == UVOf(ShapePoint(<<1, 4>>, <<1, 4>>, <<2, 1>>), <<2, 1>>)
     IN REq(uv[1], <<1, 4>>) /\ REq(uv[2], <<3, 4>>)

\* a three-point contour with the point (0.25, 0.25) is shown with aspect
\* ratio 2
C27_Witness ==
  /\ MeshShown
  /\ ~Degenerate(cutoutData[1])
  /\ cutoutData[1].aspectRatio = <<2, 1>>
  /\ cutoutData[1].points[1] = <<20, 20>>
  /\ cutoutData[1].points[2] # <<20, 20>>

\* C29: for cutout data with fewer than three points, or with no points,
\* building the shape does not throw and gives the empty shape, with no
\* outline segment, whatever the thickness and bevel settings are.
C29_DegenerateShape ==
  (MeshShown /\ Degenerate(cutoutData[1])) =>
     /\ ~ShapeThrows(cutoutData[1])
     /\ Shape(cutoutData[1]) = EmptyShape
     /\ Segments(Shape(cutoutData[1])) = 0

\* a two-point contour is shown after the thickness and the bevel were set
C29_Witness ==
  /\ MeshShown
  /\ HasPoints(cutoutData[1])
  /\ Len(cutoutData[1].points) = 2
  /\ settings["thickness"] = "chosen"
  /\ settings["bevelEnabled"] = "chosen"

-----------------------------------------------------------------------------
(* Round trip of the coordinate mapping *)

\* normalized points of the unit square, corners, edges and interior
UnitGrid == {<<x, y>> : x \in {0, 20, 40, Den}, y \in {0, 30, Den}}

\* toNormalized(toScreen(p)) followed by the clamp of the pointer handlers
RoundTrip(p, d) ==
  LET s == toScreen(p, d)
      n == toNormalizedS(s[1], s[2], d)
  IN <<Clamp01(n[1]), Clamp01(n[2])>>

\* C28: with the fit the editor holds, mapping a point of the unit square
\* to the screen and back, then clamping, gives the point again.
C28_RoundTrip == \A p \in UnitGrid : RoundTrip(p, dimensions) = p

-----------------------------------------------------------------------------
(* History snapshots *)

\* C30: a step never changes the content of a history entry that it keeps:
\* it leaves the history as it is, or keeps the entries up to the cursor
\* unchanged, drops those beyond it and appends one new entry.
C30_SnapshotsImmutable ==
  [][\/ history' = history
     \/ /\ Len(history') = historyStep + 2
        /\ SubSeq(history', 1, historyStep + 1) =
             SubSeq(history, 1, historyStep + 1)]_vars

\* after an undo a new contour is being edited while the undone snapshot
\* is still in the history
C30_Witness ==
  /\ Len(history) = 2
  /\ historyStep = 0
  /\ history[2] # << >>
  /\ points # << >>
  /\ points # history[2]

-----------------------------------------------------------------------------
(* The magnifier *)

\* C31: right after a pointer-up and right after a pointer-leave the
\* magnifier state is null, whatever the tool and whatever happened since
\* the last pointer-down.
C31_MagnifierCleared ==
  [][(PointerUp \/ PointerLeave) => magnifierState' = Null]_vars

-----------------------------------------------------------------------------
(* Pointer-down while a gesture is active *)

\* C32: under Freehand, a pointer-down received while a stroke is active
\* or a drag index is recorded leaves the live contour unchanged; only
\* from the idle editor does it append a point and start a stroke.
C32_FreehandDownOnlyIfIdle ==
  [][\A p \in Pointers :
       (tool = "freehand" /\ (isDrawing \/ draggingPointIndex # NullIndex)
          /\ PointerDown(p)) => points' = points]_vars

-----------------------------------------------------------------------------
(* Stroke and drag flags *)

\* C33: the stroke flag is set only under Freehand, a drag index is
\* recorded only under Move, and the two are never set together.
C33_ToolBound ==
  /\ isDrawing => tool = "freehand"
  /\ draggingPointIndex # NullIndex => tool = "move"
  /\ ~(isDrawing /\ draggingPointIndex # NullIndex)

-----------------------------------------------------------------------------
(* The live contour and the history cursor *)

\* C34: whenever no stroke is active and no drag index is recorded, the
\* live contour equals the history entry under the cursor.
C34_IdleAtCursor ==
  (~isDrawing /\ draggingPointIndex = NullIndex) =>
    points = history[historyStep + 1]

-----------------------------------------------------------------------------
(* The drag index *)

\* C35: a recorded drag index is always a valid index of the live
\* contour, so a pointer-move during a drag keeps the contour length.
C35_DragIndexValid ==
  draggingPointIndex # NullIndex =>
    (0 <= draggingPointIndex /\ draggingPointIndex < Len(points))

-----------------------------------------------------------------------------
(* The snapshot committed at the end of a stroke *)

\* C36: the snapshot committed by the pointer-up that ends a stroke holds
\* every point of the live contour, the points appended by the preceding
\* pointer-moves included, rendered or not.
C36_CommitLosesNoPoint ==
  [][(StrokeActive /\ PointerUp) =>
       \A i \in 1..Len(points) :
          /\ i <= Len(history'[historyStep' + 1])
          /\ history'[historyStep' + 1][i] = points[i]]_vars

-----------------------------------------------------------------------------
(* The first history entry *)

\* C37: the first history entry is the empty contour in every reachable
\* state, so an undo that brings the cursor to the first entry leaves an
\* empty live contour.
C37_FirstEntryEmpty ==
  /\ [](history[1] = << >>)
  /\ [][(Undo /\ historyStep > 0 /\ historyStep' = 0) => points' = << >>]_vars

\* a non-empty contour was committed and undone back to the first entry
C37_Witness ==
  /\ Len(history) >= 2
  /\ history[2] # << >>
  /\ historyStep = 0
  /\ points = << >>

-----------------------------------------------------------------------------
(* Export requests and the runs of the export effects *)

NextExport ==
  \/ OpenExportDialog
  \/ CloseExportDialog
  \/ \E scale \in Scales : ExportConfirm(scale)
  \/ TimerFires
  \/ \E n \in EditedSettings : SetSetting(n)
  \/ ExportGLB
  \/ \E ok \in BOOLEAN : ExporterDone(ok)

\* the 3D view with both exports
SpecExport == InitViewer /\ [][NextExport]_vars

\* C38: every export runs once per request: the snapshot downloads never
\* outnumber the snapshot requests that reached the capture effect, and
\* the GLB exports started never outnumber the clicks on Export GLB.
C38_OncePerRequest ==
  /\ viewer.downloads <= viewer.captureTrigger
  /\ viewer.glbParsing + viewer.glbDownloads + viewer.glbAlerts
       <= viewer.glbExportTrigger

-----------------------------------------------------------------------------
(* Completion of a snapshot export *)

\* the 3D view, which stays mounted, with a timer that fires once it is
\* set and not cleared
SpecViewerFair == SpecViewer /\ WF_vars(TimerFires)

\* C39: a snapshot export that has set the busy flag is completed: the
\* flag is eventually cleared; and while it is set the export dialog is
\* closed and no snapshot request is confirmed.
C39_SnapshotCompletes ==
  /\ viewer.isProcessing ~> ~viewer.isProcessing
  /\ [](viewer.isProcessing => ~viewer.showExportDialog)
  /\ [][viewer.isProcessing =>
          ~\E scale \in Scales : ExportConfirm(scale)]_vars

\* a confirmed request waits for its timer with the dialog closed
C39_Witness ==
  /\ viewer.isProcessing
  /\ viewer.timer
  /\ viewer.pendingScale # NoScale
  /\ ~viewer.showExportDialog

-----------------------------------------------------------------------------
(* The mode of App and the data it shows *)

\* C40: in the DRAW mode an image source is present, and in the VIEW_3D
\* mode cutout data with a texture reference is present.
C40_ModeConsistent ==
  /\ mode = "DRAW" => imageSrc \notin {NoImageSrc, UndefinedStr}
  /\ mode = "VIEW_3D" =>
       /\ Len(cutoutData) = 1
       /\ cutoutData[1].textureUrl \notin {NoImageSrc, UndefinedStr}

====
